---- MODULE Spec2Model ----
(***************************************************************************)
(* Change-detection and notification pipeline of silver_price_bot.py.      *)
(*                                                                         *)
(* The monitoring task (SilverPriceBot.monitor_loop) and the subscribe /   *)
(* unsubscribe handlers run on one asyncio event loop, so they interleave  *)
(* only where the monitoring task is suspended on an await.  The program   *)
(* counter pc names the place of the monitoring task; the values listed in *)
(* AwaitPoints are its awaits, the others are places inside a synchronous  *)
(* stretch of code where no handler can run.                               *)
(*                                                                         *)
(* Records keep buy_price and sell_price; "unit" and "timestamp" are never *)
(* read by the change detector or the dispatcher's control flow and are    *)
(* left out.  main() registers a handler cmd_test (line 875) that the file *)
(* does not define; the model starts at the state in which the monitoring  *)
(* task of line 879 has been created.                                      *)
(***************************************************************************)
EXTENDS Integers, Sequences, FiniteSets, TLC

\* ------------------------------------------------------------------ bounds
\* successful polls in one behaviour
MaxPolls == 2
\* failed polls in one unbroken run
MaxStreak == 4
\* subscriber ids are 1..MaxUid
MaxUid == 2
\* prices of the detector's typed inputs are 1..MaxPrice
MaxPrice == 2
\* subscribe / unsubscribe handler runs in one behaviour
MaxCmds == 1

\* ------------------------------------------------------- program constants
max_consecutive_errors == 3
HistoryCap == 200
\* POLL_SECONDS, the default of the environment variable
POLL_SECONDS == 60
\* monitor_loop: "wait_time = min(30 * consecutive_errors, 300)"
BackoffStep == 30
BackoffCap == 300

\* Python's None for an absent sell price.
None == 0 - 1

\* The chat id of the group; subscriber ids are positive.
GROUP_CHAT_ID == 0

Uids == 1..MaxUid

\* Product names as they appear in the first column; the first two contain
\* one of the keywords "BẠC", "SILVER", "AG", the third does not.
Products == {"BAC_A", "BAC_B"}
RowNames == Products \cup {"VANG"}

HasSilverKeyword(name) == name \in Products

EmptySnapshot == [p \in {} |-> 0]

IsEmpty(snapshot) == DOMAIN snapshot = {}

\* dict[key] = value
Put(f, k, v) == [x \in (DOMAIN f) \cup {k} |-> IF x = k THEN v ELSE f[x]]

\* ------------------------------------------------------------------ parser
\* A cell text is a sequence of characters.
IsDigit(c) == c \in {"0", "1", "2", "3", "4", "5", "6", "7", "8", "9"}

DigitVal(c) ==
    CASE c = "0" -> 0 [] c = "1" -> 1 [] c = "2" -> 2 [] c = "3" -> 3
      [] c = "4" -> 4 [] c = "5" -> 5 [] c = "6" -> 6 [] c = "7" -> 7
      [] c = "8" -> 8 [] c = "9" -> 9

\* int("".join(re.findall(r"\d+", s))): every digit of s, in order.
RECURSIVE DigitsToInt(_, _)
DigitsToInt(s, acc) ==
    IF s = <<>> THEN acc
    ELSE DigitsToInt(Tail(s),
                     IF IsDigit(Head(s)) THEN acc * 10 + DigitVal(Head(s)) ELSE acc)

parse_price_num(price_str) ==
    IF price_str = <<>> \/ price_str = <<"-">> THEN 0
    ELSE DigitsToInt(price_str, 0)

\* The column scan of parse_prices over texts[1:], with its break after the
\* first positive value.  Returns <<buy_price, sell_price>>.
RECURSIVE ScanColumns(_, _, _, _)
ScanColumns(cols, i, buy, sell) ==
    IF i > Len(cols) THEN <<buy, sell>>
    ELSE LET price_val == parse_price_num(cols[i]) IN
         IF price_val > 0
         THEN IF buy = 0 THEN <<price_val, sell>>
              ELSE IF sell = 0 THEN <<buy, price_val>>
              ELSE <<buy, sell>>
         ELSE ScanColumns(cols, i + 1, buy, sell)

\* Variant of ParseTable: a row is stored whatever its buy price.
RECURSIVE ParseTable_keepzero(_, _)
ParseTable_keepzero(rows, prices) ==
    IF rows = <<>> THEN prices
    ELSE LET row  == Head(rows)
             bs   == ScanColumns(row.cols, 1, 0, 0)
             keep == /\ 1 + Len(row.cols) >= 3
                     /\ HasSilverKeyword(row.product)
             rec  == [buy_price  |-> bs[1],
                      sell_price |-> IF bs[2] > 0 THEN bs[2] ELSE None]
         IN ParseTable_keepzero(Tail(rows),
                       IF keep THEN Put(prices, row.product, rec) ELSE prices)

\* A row is [product, cols]: the first cell and the cells after it.
RECURSIVE ParseTable(_, _)
ParseTable(rows, prices) ==
    IF rows = <<>> THEN prices
    ELSE LET row  == Head(rows)
             bs   == ScanColumns(row.cols, 1, 0, 0)
             keep == /\ 1 + Len(row.cols) >= 3
                     /\ HasSilverKeyword(row.product)
                     /\ bs[1] > 0
             rec  == [buy_price  |-> bs[1],
                      sell_price |-> IF bs[2] > 0 THEN bs[2] ELSE None]
         IN ParseTable(Tail(rows),
                       IF keep THEN Put(prices, row.product, rec) ELSE prices)

\* A text line is [label, num]: a product name (or "") and the rest.
LineValue(line) ==
    IF line.label = "" THEN parse_price_num(line.num)
    ELSE DigitsToInt(line.num, 0)

\* First positive value among lines[j..hi], 0 if none.
RECURSIVE FirstPrice(_, _, _)
FirstPrice(lines, j, hi) ==
    IF j > hi THEN 0
    ELSE IF LineValue(lines[j]) > 0 THEN LineValue(lines[j])
    ELSE FirstPrice(lines, j + 1, hi)

Min(a, b) == IF a <= b THEN a ELSE b

RECURSIVE parse_prices_alternative(_, _, _)
parse_prices_alternative(lines, i, prices) ==
    IF i > Len(lines) THEN prices
    ELSE LET v == FirstPrice(lines, i + 1, Min(i + 3, Len(lines)))
         IN parse_prices_alternative(lines, i + 1,
              IF HasSilverKeyword(lines[i].label) /\ v > 0
              THEN Put(prices, lines[i].label,
                       [buy_price |-> v, sell_price |-> None])
              ELSE prices)

parse_prices(html) ==
    LET prices == ParseTable(html.rows, EmptySnapshot)
    IN IF IsEmpty(prices)
       THEN parse_prices_alternative(html.lines, 1, EmptySnapshot)
       ELSE prices

\* ---------------------------------------------------------- fetched pages
UnitText == <<"k", "g">>
T100 == <<"1", "0", "0">>
T101 == <<"1", ".", "0", "1">>

RowA100  == [product |-> "BAC_A", cols |-> <<UnitText, T100, T101>>]
RowA101  == [product |-> "BAC_A", cols |-> <<UnitText, T101, T100>>]
RowAzero == [product |-> "BAC_A", cols |-> <<UnitText, <<"-">>, <<"0">>>>]
RowB100  == [product |-> "BAC_B", cols |-> <<UnitText, <<"-">>, T100>>]
RowShort == [product |-> "BAC_B", cols |-> <<T100>>]
RowOther == [product |-> "VANG",  cols |-> <<UnitText, T100, T101>>]

RowSeqs == { <<>>, <<RowA100>>, <<RowA101>>, <<RowA100, RowB100>>, <<RowOther, RowA100>>,
             <<RowA100, RowA101>>, <<RowAzero>>, <<RowShort>>, <<RowOther>> }

LineA    == [label |-> "BAC_A", num |-> <<>>]
LineDash == [label |-> "", num |-> <<"-">>]
Line100  == [label |-> "", num |-> T100]

LineSeqs == { <<>>, <<LineA, LineDash, Line100>>, <<LineA, LineDash>> }

Pages == [rows : RowSeqs, lines : LineSeqs]

\* What fetch_silver_prices can return: the parse of some page, or {} when
\* every request fails.
FetchResults == { parse_prices(html) : html \in Pages } \cup {EmptySnapshot}

\* The detector's inputs by type: Dict[str, Dict] with the record shape that
\* parse_prices builds.
TypedPrices == { 100 + i : i \in 1..MaxPrice }
TypedRecords == [buy_price : TypedPrices, sell_price : {None} \cup TypedPrices]
TypedSnapshots == UNION { [D -> TypedRecords] : D \in SUBSET Products }

\* ------------------------------------------------------------------- state
VARIABLES
    pc,                          \* place of the monitoring task
    current,                     \* monitor_loop: current
    todo,                        \* compare_and_notify: products of current not yet visited
    last_prices,                 \* self.last_prices
    price_history,               \* self.price_history (the "prices" of each entry)
    subscribers,                 \* self.subscribers
    subs_file,                   \* the ids stored in SUBS_FILE
    group_notification_enabled,  \* self.group_notification_enabled
    consecutive_errors,          \* monitor_loop: consecutive_errors
    product,                     \* notify_change: product ("" before the first call of a poll)
    copy,                        \* notify_change: self.subscribers.copy()
    remaining,                   \* notify_change: ids of copy not yet visited
    failed_subscribers,          \* notify_change: failed_subscribers
    \* history variables, written but never read by the program
    changes,                     \* notify_change calls of the current poll, in order
    sends,                       \* send_message attempts of the current poll: [to, product]
    outcome,                     \* result of each subscriber send of the current notify_change
    interfered,                  \* a handler changed self.subscribers during the current subscriber loop
    streak,                      \* failed polls since the last successful one
    alerts,                      \* health alerts handed to send_to_group in the current streak
    alert_sends,                 \* health alerts handed to bot.send_message in the current streak
    cmds,                        \* handler runs so far
    wait_time,                   \* seconds of the asyncio.sleep the loop is in or last left (0 once a fetch succeeds)
    save_failed,                 \* the latest save_subscribers call raised inside its try
    saves,                       \* save_subscribers calls of notify_change in the current poll
    forced,                      \* compare_and_notify is running for cmd_force_check
    disk_faulty,                 \* writes to SUBS_FILE can fail in this run (fixed at the start)
    attempts,                    \* bot.send_message calls of the current notify_change, per chat id
    polls,                       \* successful polls made in this behaviour
    fetched,                     \* every snapshot a successful poll fetched, in poll order
    html,                        \* the page of the latest poll, where the specification keeps it
    message                      \* notify_change: the numbers of msg (NoMessage before the first call of a poll)

vars == <<pc, current, todo, last_prices, price_history, subscribers, subs_file,
          group_notification_enabled, consecutive_errors,
          product, copy, remaining, failed_subscribers,
          changes, sends, outcome, interfered, streak, alerts, alert_sends, cmds,
          wait_time, save_failed, saves, forced, disk_faulty,
          attempts, polls, fetched, html, message>>

AwaitPoints == {"fetch", "group_send", "sub_send", "alert_send",
                "error_alert_send", "sleep"}

NoOutcome == [u \in {} |-> "ok"]

\* ----------------------------------------------------------------- helpers
\* Variant of KeepLast: at the cap the new entry is the one dropped.
KeepLast_first(s, n) == IF Len(s) <= n THEN s ELSE SubSeq(s, 1, n)

\* self.price_history[-200:]
RECURSIVE KeepLast(_, _)
KeepLast(s, n) == IF Len(s) <= n THEN s ELSE KeepLast(Tail(s), n)

\* (x or 0)
OrZero(x) == IF x = None \/ x = 0 THEN 0 ELSE x

\* Variant of IsBaseline: the first-run return is missing.
IsBaseline_never(last) == FALSE

\* compare_and_notify: "if not self.last_prices"
IsBaseline(last) == IsEmpty(last)

\* Variant of ZeroPrev: the absent sell price written as 0.
ZeroPrev_sell0 == [buy_price |-> 0, sell_price |-> 0]

\* compare_and_notify: the previous side handed over for a new product
ZeroPrev == [buy_price |-> 0, sell_price |-> None]

\* Variant of buy_changed: the 2% threshold of earlier versions.
buy_changed_threshold(cur, prev) ==
    LET d == IF cur.buy_price >= prev.buy_price
             THEN cur.buy_price - prev.buy_price
             ELSE prev.buy_price - cur.buy_price
    IN d * 100 >= 2 * prev.buy_price

buy_changed(cur, prev) == cur.buy_price # prev.buy_price

\* Variant of sell_changed: "or 0" forgotten on the current side.
sell_changed_raw(cur, prev) == cur.sell_price # OrZero(prev.sell_price)

\* Variant of sell_changed: compared only when both sides quote a sell price.
sell_changed_both(cur, prev) ==
    /\ cur.sell_price # None
    /\ prev.sell_price # None
    /\ cur.sell_price # prev.sell_price

sell_changed(cur, prev) == OrZero(cur.sell_price) # OrZero(prev.sell_price)

\* Variant of RemovedNotices: one notify_change call for every removed product.
RECURSIVE RemovedNotices_notify(_, _)
RemovedNotices_notify(last, cur) ==
    LET gone == (DOMAIN last) \ (DOMAIN cur) IN
    IF gone = {} THEN <<>>
    ELSE LET p == CHOOSE q \in gone : TRUE
         IN <<[product |-> p, previous |-> last[p], current |-> ZeroPrev]>>
            \o RemovedNotices_notify([q \in (DOMAIN last) \ {p} |-> last[q]], cur)

\* compare_and_notify: the loop over self.last_prices for removed products
\* logs each of them and calls nothing; the notify_change calls it makes.
RemovedNotices(last, cur) == <<>>

\* Variant of AlertDue: strict comparison.
AlertDue_strict(n) == n > max_consecutive_errors

\* monitor_loop: "if consecutive_errors >= max_consecutive_errors"
AlertDue(n) == n >= max_consecutive_errors

\* monitor_loop: "consecutive_errors = max_consecutive_errors - 1"
AfterAlert == max_consecutive_errors - 1

\* monitor_loop, except branch: "min(30 * consecutive_errors, 300)"
BackoffWait(n) == Min(BackoffStep * n, BackoffCap)

\* Variant of Discarded: the survivors of the copy are written back.
Discarded_fromcopy(subs, failed) == copy \ failed

\* Variant of Discarded: the set is cleared when any send failed.
Discarded_all(subs, failed) == {}

\* notify_change: "for uid in failed_subscribers: self.subscribers.discard(uid)"
Discarded(subs, failed) == subs \ failed

\* notify_change: which results of a subscriber send queue the id for removal
\* ("unreachable" is Forbidden or BadRequest, "transient" any other Exception)
QueuedForRemoval(r) == r \in {"unreachable", "transient"}

\* save_subscribers: "sorted(list(subs))", the list that json.dumps writes
RECURSIVE SortedList(_)
SortedList(S) ==
    IF S = {} THEN <<>>
    ELSE LET x == CHOOSE y \in S : \A z \in S : y <= z
         IN <<x>> \o SortedList(S \ {x})

\* save_subscribers: write_text replaces the file by the whole list ("ok"), or
\* raises before the file is opened ("unopened", the file is as it was) or
\* after it was opened for writing ("truncated"); the except clause logs
SaveOutcomes == {"ok", "unopened", "truncated"}

\* The results write_text can have in a run with a sound or a faulty disk
WriteResults(faulty) == IF faulty THEN SaveOutcomes ELSE {"ok"}

\* Variant of save_subscribers: the ids are added to those already stored.
save_subscribers_append(subs, file, r) ==
    IF r = "ok" THEN SortedList(subs \cup { file[i] : i \in DOMAIN file })
    ELSE IF r = "unopened" THEN file
    ELSE <<>>

\* save_subscribers: the content of SUBS_FILE after the call
save_subscribers(subs, file, r) ==
    IF r = "ok" THEN SortedList(subs)
    ELSE IF r = "unopened" THEN file
    ELSE <<>>

\* load_subscribers: "set(int(x) for x in data)"; a file that is absent or
\* does not parse gives the empty set, like the empty list
load_subscribers(file) == { file[i] : i \in DOMAIN file }

GroupOutcomes == {"ok", "Forbidden", "BadRequest", "TelegramError"}
SubOutcomes   == {"ok", "unreachable", "transient"}

\* Variant of GroupSendable: send_to_group does not look at the flag.
GroupSendable_always(enabled) == TRUE

\* send_to_group: bot.send_message is reached only when the flag is set.  (The
\* two other early returns cannot be taken while the flag is set: main clears
\* the flag when GROUP_CHAT_ID is not configured and sets self.application
\* before it creates the monitoring task.)
GroupSendable(enabled) == enabled

\* send_to_group: the flag after bot.send_message ended with result r
FlagAfter(enabled, r) == enabled /\ r # "Forbidden"

\* Variant of AfterGroupSend: notify_change gives up when the group send failed.
AfterGroupSend_abort(r) == IF r = "ok" THEN "subs" ELSE "notified"

\* notify_change: where it continues after "group_sent = await
\* self.send_to_group(msg)"; send_to_group catches every error and returns
\* False, and both branches of "if group_sent" only log
AfterGroupSend(r) == "subs"

\* Chat ids bot.send_message is called with
ChatIds == Uids \cup {GROUP_CHAT_ID}

NoAttempts == [c \in ChatIds |-> 0]

\* No page: the request failed, or the page is not kept
NoPage == [rows |-> <<>>, lines |-> <<>>]

NoMessage == [buy_delta |-> 0, buy_delta_pct |-> 0, spread |-> 0,
              spread_pct |-> 0, spread_reported |-> FALSE]

\* "{x:.2f}" of x = n / den * 100 for den > 0, in hundredths: the nearest
\* integer to n * 10000 / den.  Exactly between two hundredths the digit
\* printed depends on the binary value of the float; both are possible.
Round2(n, den) ==
    LET f == (n * 10000) \div den
        r == (n * 10000) - f * den
    IN IF 2 * r < den THEN {f}
       ELSE IF 2 * r > den THEN {f + 1}
       ELSE {f, f + 1}

\* Variant of spread: the percentage is taken of the sell price.
spread_of_sell(buy, sell) ==
    IF sell # None /\ sell > 0 /\ buy > 0
    THEN [sp |-> sell - buy, pct |-> Round2(sell - buy, sell)]
    ELSE [sp |-> 0, pct |-> {0}]

\* spread: sp and the printed values of pct
spread(buy, sell) ==
    IF sell # None /\ sell > 0 /\ buy > 0
    THEN [sp |-> sell - buy, pct |-> Round2(sell - buy, buy)]
    ELSE [sp |-> 0, pct |-> {0}]

\* notify_change: the numbers it puts into msg for prev and cur: delta_buy,
\* pct as printed by "{pct:+.2f}", and sp, spct of the line that is added
\* "if sp:".  (The sell line shows the two sell prices and their change; it
\* takes no part in the buy change or the spread.)
NotifyValues(prev, cur) ==
    LET prev_buy  == prev.buy_price
        cur_buy   == cur.buy_price
        delta_buy == cur_buy - prev_buy
        pcts      == IF prev_buy # 0 THEN Round2(delta_buy, prev_buy) ELSE {0}
        s         == spread(cur_buy, cur.sell_price)
    IN { [buy_delta |-> delta_buy, buy_delta_pct |-> pct, spread |-> s.sp,
          spread_pct |-> spct, spread_reported |-> (s.sp # 0)]
         : pct \in pcts, spct \in s.pct }

\* -------------------------------------------------------------------- Init
\* main clears group_notification_enabled when GROUP_CHAT_ID is not configured.
InitCommon ==
    /\ subs_file \in { SortedList(S) : S \in SUBSET Uids }
    /\ subscribers = load_subscribers(subs_file)
    /\ group_notification_enabled \in BOOLEAN
    /\ consecutive_errors = 0
    /\ product = ""
    /\ copy = {}
    /\ remaining = {}
    /\ failed_subscribers = {}
    /\ changes = <<>>
    /\ sends = {}
    /\ outcome = NoOutcome
    /\ interfered = FALSE
    /\ streak = 0
    /\ alerts = 0
    /\ alert_sends = 0
    /\ cmds = 0
    /\ wait_time = 0
    /\ save_failed = FALSE
    /\ saves = 0
    /\ forced = FALSE
    /\ attempts = NoAttempts
    /\ polls = 0
    /\ html = NoPage
    /\ message = NoMessage

Init ==
    /\ InitCommon
    /\ disk_faulty = FALSE
    /\ fetched = <<>>
    /\ pc = "fetch"
    /\ current = EmptySnapshot
    /\ todo = {}
    /\ last_prices = EmptySnapshot
    /\ price_history = <<>>

\* --------------------------------------------------------- monitoring task
\* monitor_loop, "if current:" up to the call of compare_and_notify
FetchOk(cur) ==
    /\ pc = "fetch"
    /\ ~IsEmpty(cur)
    /\ polls < MaxPolls
    /\ polls' = polls + 1
    /\ fetched' = Append(fetched, cur)
    /\ current' = cur
    /\ consecutive_errors' = 0
    /\ price_history' = KeepLast(Append(price_history, cur), HistoryCap)
    /\ todo' = DOMAIN cur
    /\ pc' = "compare"
    /\ streak' = 0
    /\ alerts' = 0
    /\ alert_sends' = 0
    /\ wait_time' = 0
    /\ UNCHANGED <<last_prices, subscribers, subs_file, group_notification_enabled,
                   product, copy, remaining, failed_subscribers,
                   changes, sends, outcome, interfered, cmds, save_failed, saves, forced, disk_faulty,
                   attempts, message>>

\* Variant of FetchEmpty: the empty snapshot replaces last_prices.
FetchEmpty_adopt ==
    /\ pc = "fetch"
    /\ EmptySnapshot \in FetchResults
    /\ streak < MaxStreak
    /\ current' = EmptySnapshot
    /\ last_prices' = EmptySnapshot
    /\ streak' = streak + 1
    /\ LET n == consecutive_errors + 1 IN
       IF AlertDue(n)
       THEN /\ alerts' = alerts + 1
            /\ IF GroupSendable(group_notification_enabled)
               THEN /\ pc' = "alert_send"
                    /\ consecutive_errors' = n
               ELSE /\ pc' = "sleep"
                    /\ consecutive_errors' = AfterAlert
       ELSE /\ alerts' = alerts
            /\ pc' = "sleep"
            /\ consecutive_errors' = n
    /\ wait_time' = IF pc' = "sleep" THEN POLL_SECONDS ELSE wait_time
    /\ UNCHANGED <<todo, price_history, subscribers, subs_file,
                   group_notification_enabled, product, copy, remaining,
                   failed_subscribers, changes, sends, outcome, interfered, alert_sends, cmds,
                   save_failed, saves, forced, disk_faulty,
                   attempts, polls, fetched, message>>

\* monitor_loop, the else branch up to the await inside send_to_group (or,
\* when send_to_group returns early, up to asyncio.sleep)
FetchEmpty ==
    /\ pc = "fetch"
    /\ EmptySnapshot \in FetchResults
    /\ streak < MaxStreak
    /\ current' = EmptySnapshot
    /\ streak' = streak + 1
    /\ LET n == consecutive_errors + 1 IN
       IF AlertDue(n)
       THEN /\ alerts' = alerts + 1
            /\ IF GroupSendable(group_notification_enabled)
               THEN /\ pc' = "alert_send"
                    /\ consecutive_errors' = n
               ELSE /\ pc' = "sleep"
                    /\ consecutive_errors' = AfterAlert
       ELSE /\ alerts' = alerts
            /\ pc' = "sleep"
            /\ consecutive_errors' = n
    /\ wait_time' = IF pc' = "sleep" THEN POLL_SECONDS ELSE wait_time
    /\ UNCHANGED <<todo, last_prices, price_history, subscribers, subs_file,
                   group_notification_enabled, product, copy, remaining,
                   failed_subscribers, changes, sends, outcome, interfered, alert_sends, cmds,
                   save_failed, saves, forced, disk_faulty,
                   attempts, polls, fetched, message>>

\* Variant of AlertSend: the alert goes to every subscriber as well.
AlertSend_broadcast(r) ==
    /\ pc = "alert_send"
    /\ alert_sends' = alert_sends + 1
    /\ sends' = sends \cup { [to |-> u, product |-> ""] : u \in subscribers }
    /\ group_notification_enabled' = FlagAfter(group_notification_enabled, r)
    /\ consecutive_errors' = AfterAlert
    /\ pc' = "sleep"
    /\ wait_time' = POLL_SECONDS
    /\ UNCHANGED <<current, todo, last_prices, price_history, subscribers, subs_file,
                   product, copy, remaining, failed_subscribers,
                   changes, outcome, interfered, streak, alerts, cmds,
                   save_failed, saves, forced, disk_faulty,
                   attempts, polls, fetched, html, message>>

\* Variant of AlertSend: an error of the send ends the monitoring task.
AlertSend_raise(r) ==
    /\ pc = "alert_send"
    /\ alert_sends' = alert_sends + 1
    /\ group_notification_enabled' = FlagAfter(group_notification_enabled, r)
    /\ consecutive_errors' = AfterAlert
    /\ pc' = IF r = "ok" THEN "sleep" ELSE "stopped"
    /\ wait_time' = POLL_SECONDS
    /\ UNCHANGED <<current, todo, last_prices, price_history, subscribers, subs_file,
                   product, copy, remaining, failed_subscribers,
                   changes, sends, outcome, interfered, streak, alerts, cmds,
                   save_failed, saves, forced, disk_faulty,
                   attempts, polls, fetched, html, message>>

\* send_to_group(error_msg): bot.send_message completes with result r; then
\* monitor_loop resets the counter and goes to asyncio.sleep
AlertSend(r) ==
    /\ pc = "alert_send"
    /\ alert_sends' = alert_sends + 1
    /\ group_notification_enabled' = FlagAfter(group_notification_enabled, r)
    /\ consecutive_errors' = AfterAlert
    /\ pc' = "sleep"
    /\ wait_time' = POLL_SECONDS
    /\ UNCHANGED <<current, todo, last_prices, price_history, subscribers, subs_file,
                   product, copy, remaining, failed_subscribers,
                   changes, sends, outcome, interfered, streak, alerts, cmds,
                   save_failed, saves, forced, disk_faulty,
                   attempts, polls, fetched, html, message>>

\* monitor_loop, "except Exception": an exception escapes the body of the loop
\* (raised here at the await of fetch_silver_prices, so current keeps its
\* value); the branch runs up to the await inside send_to_group or up to
\* asyncio.sleep(wait_time)
MonitorError ==
    /\ pc = "fetch"
    /\ streak < MaxStreak
    /\ streak' = streak + 1
    /\ LET n == consecutive_errors + 1 IN
       /\ consecutive_errors' = n
       /\ alerts' = IF AlertDue(n) THEN alerts + 1 ELSE alerts
       /\ IF AlertDue(n) /\ GroupSendable(group_notification_enabled)
          THEN /\ pc' = "error_alert_send"
               /\ wait_time' = wait_time
          ELSE /\ pc' = "sleep"
               /\ wait_time' = BackoffWait(n)
    /\ UNCHANGED <<current, todo, last_prices, price_history, subscribers, subs_file,
                   group_notification_enabled, product, copy, remaining,
                   failed_subscribers, changes, sends, outcome, interfered, alert_sends, cmds,
                   save_failed, saves, forced, disk_faulty,
                   attempts, polls, fetched, html, message>>

\* send_to_group(error_msg) of the except branch: bot.send_message completes
\* with result r; the counter is kept and the loop goes to asyncio.sleep(wait_time)
ErrorAlertSend(r) ==
    /\ pc = "error_alert_send"
    /\ alert_sends' = alert_sends + 1
    /\ group_notification_enabled' = FlagAfter(group_notification_enabled, r)
    /\ wait_time' = BackoffWait(consecutive_errors)
    /\ pc' = "sleep"
    /\ UNCHANGED <<current, todo, last_prices, price_history, subscribers, subs_file,
                   consecutive_errors, product, copy, remaining, failed_subscribers,
                   changes, sends, outcome, interfered, streak, alerts, cmds,
                   save_failed, saves, forced, disk_faulty,
                   attempts, polls, fetched, html, message>>

\* compare_and_notify: first run, establish the baseline
CompareBaseline ==
    /\ pc = "compare"
    /\ IsBaseline(last_prices)
    /\ pc' = "adopt"
    /\ todo' = {}
    /\ UNCHANGED <<current, last_prices, price_history, subscribers, subs_file,
                   group_notification_enabled, consecutive_errors,
                   product, copy, remaining, failed_subscribers,
                   changes, sends, outcome, interfered, streak, alerts, alert_sends, cmds, wait_time, save_failed, saves, forced, disk_faulty,
                   attempts, polls, fetched, html, message>>

\* compare_and_notify: one turn of "for product, cur in current.items()".
\* When the product is new or changed, notify_change is entered and runs up
\* to the await inside send_to_group (or to the subscriber loop when
\* send_to_group returns early).
CompareNext(p) ==
    /\ pc = "compare"
    /\ ~IsBaseline(last_prices)
    /\ p \in todo
    /\ todo' = todo \ {p}
    /\ LET cur    == current[p]
           isNew  == p \notin DOMAIN last_prices
           prev   == IF isNew THEN ZeroPrev ELSE last_prices[p]
           notify == isNew \/ buy_changed(cur, prev) \/ sell_changed(cur, prev)
       IN IF notify
          THEN /\ changes' = Append(changes, [product |-> p, previous |-> prev, current |-> cur])
               /\ product' = p
               /\ message' \in NotifyValues(prev, cur)
               /\ pc' = IF GroupSendable(group_notification_enabled)
                        THEN "group_send" ELSE "subs"
          ELSE /\ UNCHANGED <<changes, product, pc, message>>
    /\ UNCHANGED <<current, last_prices, price_history, subscribers, subs_file,
                   group_notification_enabled, consecutive_errors,
                   copy, remaining, failed_subscribers,
                   sends, outcome, interfered, streak, alerts, alert_sends, cmds, wait_time, save_failed, saves, forced, disk_faulty,
                   attempts, polls, fetched, html>>

\* compare_and_notify: the loop over removed products, then return
CompareRemoved ==
    /\ pc = "compare"
    /\ ~IsBaseline(last_prices)
    /\ todo = {}
    /\ changes' = changes \o RemovedNotices(last_prices, current)
    /\ pc' = "adopt"
    /\ UNCHANGED <<current, todo, last_prices, price_history, subscribers, subs_file,
                   group_notification_enabled, consecutive_errors,
                   product, copy, remaining, failed_subscribers,
                   sends, outcome, interfered, streak, alerts, alert_sends, cmds, wait_time, save_failed, saves, forced, disk_faulty,
                   attempts, polls, fetched, html, message>>

\* send_to_group(msg) inside notify_change: bot.send_message completes with
\* result r; notify_change then reaches "for uid in self.subscribers.copy()"
GroupSend(r) ==
    /\ pc = "group_send"
    /\ sends' = sends \cup {[to |-> GROUP_CHAT_ID, product |-> product]}
    /\ attempts' = [attempts EXCEPT ![GROUP_CHAT_ID] = @ + 1]
    /\ group_notification_enabled' = FlagAfter(group_notification_enabled, r)
    /\ pc' = AfterGroupSend(r)
    /\ UNCHANGED <<current, todo, last_prices, price_history, subscribers, subs_file,
                   consecutive_errors, product, copy, remaining, failed_subscribers,
                   changes, outcome, interfered, streak, alerts, alert_sends, cmds, wait_time, save_failed, saves, forced, disk_faulty,
                   polls, fetched, html, message>>

\* notify_change: the copy of the subscriber set is taken and the loop starts
SubsBegin ==
    /\ pc = "subs"
    /\ copy' = subscribers
    /\ remaining' = subscribers
    /\ failed_subscribers' = {}
    /\ outcome' = NoOutcome
    /\ interfered' = FALSE
    /\ pc' = IF subscribers = {} THEN "prune" ELSE "sub_send"
    /\ UNCHANGED <<current, todo, last_prices, price_history, subscribers, subs_file,
                   group_notification_enabled, consecutive_errors,
                   product, changes, sends, streak, alerts, alert_sends, cmds, wait_time, save_failed, saves, forced, disk_faulty,
                   attempts, polls, fetched, html, message>>

\* Variant of SubSend: a send that failed with a transient error is tried again.
SubSend_retry(uid, r) ==
    /\ pc = "sub_send"
    /\ uid \in remaining
    /\ remaining' = IF r = "transient" THEN remaining ELSE remaining \ {uid}
    /\ sends' = sends \cup {[to |-> uid, product |-> product]}
    /\ attempts' = [attempts EXCEPT ![uid] = @ + 1]
    /\ outcome' = Put(outcome, uid, r)
    /\ failed_subscribers' = IF r = "unreachable"
                             THEN failed_subscribers \cup {uid}
                             ELSE failed_subscribers
    /\ pc' = IF remaining' = {} THEN "prune" ELSE "sub_send"
    /\ UNCHANGED <<current, todo, last_prices, price_history, subscribers, subs_file,
                   group_notification_enabled, consecutive_errors,
                   product, copy, changes, interfered, streak, alerts, alert_sends, cmds,
                   wait_time, save_failed, saves, forced, disk_faulty,
                   polls, fetched, html, message>>

\* Variant of SubSend: an error other than Forbidden and BadRequest leaves
\* notify_change and reaches the except branch of monitor_loop.
SubSend_raise(uid, r) ==
    /\ pc = "sub_send"
    /\ uid \in remaining
    /\ remaining' = remaining \ {uid}
    /\ sends' = sends \cup {[to |-> uid, product |-> product]}
    /\ attempts' = [attempts EXCEPT ![uid] = @ + 1]
    /\ outcome' = Put(outcome, uid, r)
    /\ failed_subscribers' = IF r = "unreachable"
                             THEN failed_subscribers \cup {uid}
                             ELSE failed_subscribers
    /\ IF r = "transient"
       THEN /\ consecutive_errors' = consecutive_errors + 1
            /\ wait_time' = BackoffWait(consecutive_errors + 1)
            /\ pc' = "sleep"
       ELSE /\ UNCHANGED <<consecutive_errors, wait_time>>
            /\ pc' = IF remaining' = {} THEN "prune" ELSE "sub_send"
    /\ UNCHANGED <<current, todo, last_prices, price_history, subscribers, subs_file,
                   group_notification_enabled,
                   product, copy, changes, interfered, streak, alerts, alert_sends, cmds,
                   save_failed, saves, forced, disk_faulty,
                   polls, fetched, html, message>>

\* notify_change: bot.send_message(uid, msg) completes with result r
SubSend(uid, r) ==
    /\ pc = "sub_send"
    /\ uid \in remaining
    /\ remaining' = remaining \ {uid}
    /\ sends' = sends \cup {[to |-> uid, product |-> product]}
    /\ attempts' = [attempts EXCEPT ![uid] = @ + 1]
    /\ outcome' = Put(outcome, uid, r)
    /\ failed_subscribers' = IF QueuedForRemoval(r)
                             THEN failed_subscribers \cup {uid}
                             ELSE failed_subscribers
    /\ pc' = IF remaining' = {} THEN "prune" ELSE "sub_send"
    /\ UNCHANGED <<current, todo, last_prices, price_history, subscribers, subs_file,
                   group_notification_enabled, consecutive_errors,
                   product, copy, changes, interfered, streak, alerts, alert_sends, cmds, wait_time, save_failed, saves, forced, disk_faulty,
                   polls, fetched, html, message>>

\* notify_change: "if failed_subscribers:" discard them and save once
Prune ==
    /\ pc = "prune"
    /\ IF failed_subscribers # {}
       THEN /\ subscribers' = Discarded(subscribers, failed_subscribers)
            /\ \E r \in WriteResults(disk_faulty) :
                  /\ subs_file' = save_subscribers(subscribers', subs_file, r)
                  /\ save_failed' = (r # "ok")
            /\ saves' = saves + 1
       ELSE UNCHANGED <<subscribers, subs_file, save_failed, saves>>
    /\ pc' = "notified"
    /\ UNCHANGED <<current, todo, last_prices, price_history,
                   group_notification_enabled, consecutive_errors,
                   product, copy, remaining, failed_subscribers,
                   changes, sends, outcome, interfered, streak, alerts, alert_sends, cmds,
                   wait_time, forced, disk_faulty,
                   attempts, polls, fetched, html, message>>

\* notify_change returns to the loop of compare_and_notify
NotifyReturn ==
    /\ pc = "notified"
    /\ pc' = "compare"
    /\ copy' = {}
    /\ failed_subscribers' = {}
    /\ outcome' = NoOutcome
    /\ interfered' = FALSE
    /\ attempts' = NoAttempts
    /\ UNCHANGED <<current, todo, last_prices, price_history, subscribers, subs_file,
                   group_notification_enabled, consecutive_errors, product,
                   remaining, changes, sends, streak, alerts, alert_sends, cmds, wait_time, save_failed, saves, forced, disk_faulty,
                   polls, fetched, html, message>>

\* Variant of Adopt: only the baseline is ever stored.
Adopt_baseline_only ==
    /\ pc = "adopt"
    /\ ~forced
    /\ last_prices' = IF IsEmpty(last_prices) THEN current ELSE last_prices
    /\ pc' = "sleep"
    /\ wait_time' = POLL_SECONDS
    /\ UNCHANGED <<current, todo, price_history, subscribers, subs_file,
                   group_notification_enabled, consecutive_errors,
                   product, copy, remaining, failed_subscribers,
                   changes, sends, outcome, interfered, streak, alerts, alert_sends, cmds,
                   save_failed, saves, forced, disk_faulty,
                   attempts, polls, fetched, html, message>>

\* monitor_loop: "self.last_prices = current.copy()", then asyncio.sleep
Adopt ==
    /\ pc = "adopt"
    /\ ~forced
    /\ last_prices' = current
    /\ pc' = "sleep"
    /\ wait_time' = POLL_SECONDS
    /\ UNCHANGED <<current, todo, price_history, subscribers, subs_file,
                   group_notification_enabled, consecutive_errors,
                   product, copy, remaining, failed_subscribers,
                   changes, sends, outcome, interfered, streak, alerts, alert_sends, cmds,
                   save_failed, saves, forced, disk_faulty,
                   attempts, polls, fetched, html, message>>

\* monitor_loop: asyncio.sleep(POLL_SECONDS) returns, next turn of the loop
\* (the logs of the finished poll are cleared)
MonitorSleep ==
    /\ pc = "sleep"
    /\ pc' = "fetch"
    /\ product' = ""
    /\ changes' = <<>>
    /\ sends' = {}
    /\ saves' = 0
    /\ message' = NoMessage
    /\ UNCHANGED <<current, todo, last_prices, price_history, subscribers, subs_file,
                   group_notification_enabled, consecutive_errors,
                   copy, remaining, failed_subscribers,
                   outcome, interfered, streak, alerts, alert_sends, cmds,
                   wait_time, save_failed, forced, disk_faulty,
                   attempts, polls, fetched, html>>

\* ---------------------------------------------------------------- handlers
\* Variant of cmd_sub: the set is changed in memory only.
cmd_sub_nosave(uid) ==
    /\ pc \in AwaitPoints
    /\ cmds < MaxCmds
    /\ cmds' = cmds + 1
    /\ subscribers' = subscribers \cup {uid}
    /\ interfered' = (interfered \/ pc = "sub_send")
    /\ UNCHANGED <<pc, current, todo, last_prices, price_history,
                   group_notification_enabled, consecutive_errors,
                   product, copy, remaining, failed_subscribers,
                   changes, sends, outcome, streak, alerts, alert_sends,
                   subs_file, wait_time, save_failed, saves, forced, disk_faulty,
                   attempts, polls, fetched, html, message>>

\* cmd_sub and the "subscribe" button
cmd_sub(uid) ==
    /\ pc \in AwaitPoints
    /\ cmds < MaxCmds
    /\ cmds' = cmds + 1
    /\ subscribers' = subscribers \cup {uid}
    /\ \E r \in WriteResults(disk_faulty) :
          /\ subs_file' = save_subscribers(subscribers', subs_file, r)
          /\ save_failed' = (r # "ok")
    /\ interfered' = (interfered \/ pc = "sub_send")
    /\ UNCHANGED <<pc, current, todo, last_prices, price_history,
                   group_notification_enabled, consecutive_errors,
                   product, copy, remaining, failed_subscribers,
                   changes, sends, outcome, streak, alerts, alert_sends,
                   wait_time, saves, forced, disk_faulty,
                   attempts, polls, fetched, html, message>>

\* cmd_unsub and the "unsubscribe" button
cmd_unsub(uid) ==
    /\ pc \in AwaitPoints
    /\ cmds < MaxCmds
    /\ cmds' = cmds + 1
    /\ subscribers' = subscribers \ {uid}
    /\ \E r \in WriteResults(disk_faulty) :
          /\ subs_file' = save_subscribers(subscribers', subs_file, r)
          /\ save_failed' = (r # "ok")
    /\ interfered' = (interfered \/ pc = "sub_send")
    /\ UNCHANGED <<pc, current, todo, last_prices, price_history,
                   group_notification_enabled, consecutive_errors,
                   product, copy, remaining, failed_subscribers,
                   changes, sends, outcome, streak, alerts, alert_sends,
                   wait_time, saves, forced, disk_faulty,
                   attempts, polls, fetched, html, message>>

\* cmd_price and the "price" button: fetch_silver_prices is awaited and the
\* result is only formatted into the reply
cmd_price ==
    /\ pc \in AwaitPoints
    /\ cmds < MaxCmds
    /\ cmds' = cmds + 1
    /\ UNCHANGED <<pc, current, todo, last_prices, price_history, subscribers, subs_file,
                   group_notification_enabled, consecutive_errors,
                   product, copy, remaining, failed_subscribers,
                   changes, sends, outcome, interfered, streak, alerts, alert_sends,
                   wait_time, save_failed, saves, forced, disk_faulty,
                   attempts, polls, fetched, html, message>>

\* cmd_force_check, from the return of its fetch with the snapshot cur, run
\* while the monitoring task is in asyncio.sleep.  With a stored snapshot it
\* awaits compare_and_notify(cur): the call runs through the actions of the
\* dispatcher with forced set, current and todo standing for the handler's
\* own locals and the logs restarted.  Without one it stores cur.
cmd_force_check(cur) ==
    /\ pc = "sleep"
    /\ ~forced
    /\ cmds < MaxCmds
    /\ cmds' = cmds + 1
    /\ IF IsEmpty(cur)
       THEN UNCHANGED <<pc, current, todo, last_prices, product, changes, sends, forced, message>>
       ELSE IF IsBaseline(last_prices)
       THEN /\ last_prices' = cur
            /\ UNCHANGED <<pc, current, todo, product, changes, sends, forced, message>>
       ELSE /\ forced' = TRUE
            /\ current' = cur
            /\ todo' = DOMAIN cur
            /\ product' = ""
            /\ changes' = <<>>
            /\ sends' = {}
            /\ message' = NoMessage
            /\ pc' = "compare"
            /\ UNCHANGED last_prices
    /\ UNCHANGED <<price_history, subscribers, subs_file,
                   group_notification_enabled, consecutive_errors,
                   copy, remaining, failed_subscribers,
                   outcome, interfered, streak, alerts, alert_sends,
                   wait_time, save_failed, saves, disk_faulty,
                   attempts, polls, fetched, html>>

\* cmd_force_check: compare_and_notify has returned; the handler replies and
\* ends without storing the snapshot, the monitoring task is still asleep
ForceReturn ==
    /\ pc = "adopt"
    /\ forced
    /\ forced' = FALSE
    /\ pc' = "sleep"
    /\ UNCHANGED <<current, todo, last_prices, price_history, subscribers, subs_file,
                   group_notification_enabled, consecutive_errors,
                   product, copy, remaining, failed_subscribers,
                   changes, sends, outcome, interfered, streak, alerts, alert_sends, cmds,
                   wait_time, save_failed, saves, disk_faulty,
                   attempts, polls, fetched, html, message>>

\* ----------------------------------------------------------- specification
Dispatch ==
    \/ \E p \in Products : CompareNext(p)
    \/ CompareBaseline
    \/ CompareRemoved
    \/ \E r \in GroupOutcomes : GroupSend(r)
    \/ SubsBegin
    \/ \E uid \in Uids, r \in SubOutcomes : SubSend(uid, r)
    \/ Prune
    \/ NotifyReturn
    \/ Adopt

Next ==
    \/ \E cur \in FetchResults : FetchOk(cur) /\ UNCHANGED html
    \/ FetchEmpty /\ UNCHANGED html
    \/ \E r \in GroupOutcomes : AlertSend(r)
    \/ MonitorError
    \/ \E r \in GroupOutcomes : ErrorAlertSend(r)
    \/ Dispatch
    \/ MonitorSleep
    \/ \E uid \in Uids : cmd_sub(uid)
    \/ \E uid \in Uids : cmd_unsub(uid)
    \/ cmd_price

\* The handlers that main registers, beside the monitoring task, on a disk
\* that takes every write (SUBS_FILE is never read after the start, so the
\* result of a write has no effect on what the tasks do; SpecPersist has the
\* failing writes).
Spec == Init /\ [][Next]_vars

\* The program with cmd_force_check wired to a command as well (main adds no
\* handler for it).
NextForce ==
    \/ Next
    \/ \E cur \in FetchResults : cmd_force_check(cur)
    \/ ForceReturn

SpecForce == Init /\ [][NextForce]_vars

\* The detector alone: one call of compare_and_notify with last_prices and
\* current ranging over the typed snapshots, while nobody is subscribed.
InitDetect ==
    /\ subs_file = <<>>
    /\ subscribers = load_subscribers(subs_file)
    /\ group_notification_enabled \in BOOLEAN
    /\ consecutive_errors = 0
    /\ product = ""
    /\ copy = {}
    /\ remaining = {}
    /\ failed_subscribers = {}
    /\ changes = <<>>
    /\ sends = {}
    /\ outcome = NoOutcome
    /\ interfered = FALSE
    /\ streak = 0
    /\ alerts = 0
    /\ alert_sends = 0
    /\ cmds = 0
    /\ wait_time = 0
    /\ save_failed = FALSE
    /\ saves = 0
    /\ forced = FALSE
    /\ disk_faulty = FALSE
    /\ attempts = NoAttempts
    /\ polls = 0
    /\ html = NoPage
    /\ message = NoMessage
    /\ pc = "compare"
    /\ last_prices \in TypedSnapshots
    /\ current \in TypedSnapshots \ {EmptySnapshot}
    /\ todo = DOMAIN current
    /\ price_history = IF IsEmpty(last_prices) THEN <<current>> ELSE <<last_prices, current>>
    /\ fetched = price_history

NextDetect ==
    \/ \E p \in Products : CompareNext(p)
    \/ CompareBaseline
    \/ CompareRemoved
    \/ \E r \in GroupOutcomes : GroupSend(r)
    \/ SubsBegin
    \/ Prune
    \/ NotifyReturn
    \/ Adopt

SpecDetect == InitDetect /\ [][NextDetect]_vars

\* Persistence on a disk whose writes can fail: one successful poll after the
\* baseline, from the call of compare_and_notify to asyncio.sleep, with the
\* subscribe and unsubscribe handlers.
InitPersist ==
    /\ InitCommon
    /\ disk_faulty = TRUE
    /\ pc = "compare"
    /\ last_prices \in FetchResults \ {EmptySnapshot}
    /\ current \in FetchResults \ {EmptySnapshot}
    /\ todo = DOMAIN current
    /\ price_history = <<last_prices, current>>
    /\ fetched = price_history

NextPersist ==
    \/ \E p \in Products : CompareNext(p)
    \/ CompareRemoved
    \/ \E r \in GroupOutcomes : GroupSend(r)
    \/ SubsBegin
    \/ \E uid \in Uids, r \in SubOutcomes : SubSend(uid, r)
    \/ Prune
    \/ NotifyReturn
    \/ Adopt
    \/ \E uid \in Uids : cmd_sub(uid)
    \/ \E uid \in Uids : cmd_unsub(uid)

SpecPersist == InitPersist /\ [][NextPersist]_vars

\* ------------------------------------------------------------------ claims
\* Number of notify_change calls of the current poll for product p.
Count(p) == Cardinality({ i \in 1..Len(changes) : changes[i].product = p })

\* Products some send of the current poll was about.
SentAbout == { m.product : m \in sends }

\* compare_and_notify has returned and last_prices still is the previous snapshot.
Compared == pc = "adopt"

\* C1: on the first successful poll after start (no last-known snapshot) no
\* change is notified to the group or to any subscriber, whatever was fetched,
\* and the fetched snapshot becomes the last-known snapshot.
C1_BaselineSilent ==
    (pc # "fetch" /\ Len(price_history) = 1 /\ ~IsEmpty(current) /\ streak = 0) =>
        /\ changes = <<>>
        /\ sends = {}
        /\ pc \in {"compare", "adopt", "sleep"}
        /\ pc = "sleep" => last_prices = current

C1_Witness ==
    /\ pc = "sleep"
    /\ Len(price_history) = 1
    /\ Cardinality(DOMAIN current) = 2
    /\ last_prices = current
    /\ subscribers # {}
    /\ group_notification_enabled
    /\ sends = {}

\* C2: with a non-empty previous snapshot A and current snapshot B, every
\* product in both whose buy price differs gets exactly one notify_change call
\* in that poll, with previous = A[P] and current = B[P].
C2_BuyChangeOnce ==
    (Compared /\ ~IsEmpty(last_prices)) =>
        \A p \in (DOMAIN last_prices) \cap (DOMAIN current) :
            current[p].buy_price # last_prices[p].buy_price =>
                /\ Count(p) = 1
                /\ \E i \in 1..Len(changes) :
                       changes[i] = [product |-> p, previous |-> last_prices[p],
                                     current |-> current[p]]

C2_Witness ==
    /\ Compared
    /\ \E p \in (DOMAIN last_prices) \cap (DOMAIN current) :
           /\ current[p].buy_price # last_prices[p].buy_price
           /\ Count(p) = 1
    /\ sends # {}

\* C3: for a product in both snapshots a notify_change call is made if and
\* only if the buy prices differ or the sell prices differ once an absent sell
\* price counts as 0; a difference of one currency unit suffices.
C3_ChangeIffDiffers ==
    (Compared /\ ~IsEmpty(last_prices)) =>
        \A p \in (DOMAIN last_prices) \cap (DOMAIN current) :
            LET a  == last_prices[p]
                b  == current[p]
                sa == IF a.sell_price = None THEN 0 ELSE a.sell_price
                sb == IF b.sell_price = None THEN 0 ELSE b.sell_price
            IN Count(p) = IF a.buy_price # b.buy_price \/ sa # sb THEN 1 ELSE 0

C3_Witness ==
    /\ Compared
    /\ \E p \in (DOMAIN last_prices) \cap (DOMAIN current) :
           /\ current[p].buy_price = last_prices[p].buy_price
           /\ last_prices[p].sell_price = None
           /\ current[p].sell_price # None
           /\ Count(p) = 1
    /\ \E q \in (DOMAIN last_prices) \cap (DOMAIN current) :
           /\ current[q].buy_price = last_prices[q].buy_price
           /\ last_prices[q].sell_price = None
           /\ current[q].sell_price = None
           /\ Count(q) = 0

\* C4: when the current snapshot equals the non-empty last-known snapshot the
\* poll notifies nothing to the group or to any subscriber.
C4_IdenticalSilent ==
    (pc \in {"compare", "group_send", "subs", "sub_send", "prune", "notified", "adopt"}
        /\ ~IsEmpty(last_prices) /\ current = last_prices) =>
        /\ changes = <<>>
        /\ sends = {}
        /\ pc \in {"compare", "adopt"}

C4_Witness ==
    /\ Compared
    /\ ~IsEmpty(last_prices)
    /\ current = last_prices
    /\ subscribers # {}
    /\ group_notification_enabled

\* C5: with a non-empty last-known snapshot, a product in the current snapshot
\* but not in the last-known one gets exactly one notify_change call, whose
\* previous side has buy_price 0 and no sell price.
C5_NewProduct ==
    (Compared /\ ~IsEmpty(last_prices)) =>
        \A p \in (DOMAIN current) \ (DOMAIN last_prices) :
            /\ Count(p) = 1
            /\ \E i \in 1..Len(changes) :
                   /\ changes[i].product = p
                   /\ changes[i].previous.buy_price = 0
                   /\ changes[i].previous.sell_price = None
                   /\ changes[i].current = current[p]

C5_Witness ==
    /\ Compared
    /\ ~IsEmpty(last_prices)
    /\ \E p \in (DOMAIN current) \ (DOMAIN last_prices) : Count(p) = 1
    /\ sends # {}

\* C6: a product in the last-known snapshot but not in the current one gets no
\* notify_change call and no send in that poll.
C6_RemovedSilent ==
    (pc \in {"compare", "group_send", "subs", "sub_send", "prune", "notified", "adopt"}) =>
        \A p \in (DOMAIN last_prices) \ (DOMAIN current) :
            /\ Count(p) = 0
            /\ p \notin SentAbout

C6_Witness ==
    /\ Compared
    /\ (DOMAIN last_prices) \ (DOMAIN current) # {}
    /\ subscribers # {}
    /\ group_notification_enabled

\* Subscribers of the current notify_change whose send ended as unreachable.
Unreachable == { u \in DOMAIN outcome : outcome[u] = "unreachable" }

\* notify_change is past its pruning and no handler ran during its loop.
Dispatched == pc = "notified" /\ ~interfered

\* C7: when exactly one subscriber k of the copy is permanently unreachable
\* and every other send succeeds, every member of the copy has been sent to
\* and the subscriber set afterwards is the copy without k.
C7_IsolatedFailure ==
    (/\ Dispatched
     /\ Cardinality(Unreachable) = 1
     /\ \A u \in (DOMAIN outcome) \ Unreachable : outcome[u] = "ok") =>
        /\ DOMAIN outcome = copy
        /\ \A u \in copy : [to |-> u, product |-> product] \in sends
        /\ subscribers = copy \ Unreachable

C7_Witness ==
    /\ Dispatched
    /\ Cardinality(copy) >= 2
    /\ Cardinality(Unreachable) = 1
    /\ \A u \in copy \ Unreachable : outcome[u] = "ok"
    /\ subscribers = copy \ Unreachable

\* C8: a subscriber whose send failed with a transient error is still in the
\* subscriber set after that dispatch.
C8_TransientRetained ==
    Dispatched =>
        \A u \in DOMAIN outcome : outcome[u] = "transient" => u \in subscribers

\* C9: in one unbroken run of failed polls at most one health alert is sent
\* to the group.
C9_OneAlertPerOutage == alert_sends <= 1

\* C10: from a failure count of zero, the first and the second failed poll
\* send no health alert and the third sends exactly one (to bot.send_message
\* when group notifications are enabled).
C10_AlertAtThird ==
    pc = "sleep" =>
        /\ streak \in {1, 2} => (alerts = 0 /\ alert_sends = 0)
        /\ streak = 3 => /\ alerts = 1
                         /\ alert_sends <= 1
                         /\ group_notification_enabled => alert_sends = 1

C10_Witness ==
    /\ pc = "sleep"
    /\ streak = 3
    /\ alerts = 1
    /\ alert_sends = 1

\* C11: after a failed poll the sleep before the next fetch grows with the
\* number of consecutive failures until it reaches the cap and never exceeds
\* it: entering the sleep after the second or a later failure of a run, the
\* sleep is longer than the one before it, or is the cap.
C11_BackoffGrows ==
    [][ (pc # "sleep" /\ pc' = "sleep" /\ streak' >= 2) =>
            /\ wait_time' <= BackoffCap
            /\ wait_time' > wait_time \/ wait_time' = BackoffCap ]_vars

\* C12: at the start of each poll consecutive_errors equals the number of
\* failed polls since the last successful one (0 after a success, one more
\* after every failure).
C12_CounterIsStreak == pc = "fetch" => consecutive_errors = streak

\* C13: within a successful poll the new snapshot has replaced last_prices
\* before the first notification of that poll is handed to bot.send_message.
C13_AdoptBeforeSend == sends # {} => last_prices = current

\* C14: for each notify_change call the group is tried before any subscriber
\* (a subscriber send about a product is preceded by the group send about it,
\* unless group notifications are off), and whatever the result of the group
\* send, every subscriber of the copy gets its send attempt.
C14_GroupFirstNoAbort ==
    /\ \A m \in sends :
          m.to # GROUP_CHAT_ID =>
              \/ [to |-> GROUP_CHAT_ID, product |-> m.product] \in sends
              \/ ~group_notification_enabled
    /\ (pc = "notified" /\ ~interfered) =>
          /\ DOMAIN outcome = copy
          /\ \A u \in copy : [to |-> u, product |-> product] \in sends
          /\ subscribers \subseteq copy

\* A group send that ended with Forbidden (the flag went off in this call),
\* followed by the sends to both subscribers.
C14_Witness ==
    /\ pc = "notified"
    /\ ~interfered
    /\ Cardinality(copy) >= 2
    /\ [to |-> GROUP_CHAT_ID, product |-> product] \in sends
    /\ ~group_notification_enabled
    /\ \A u \in copy : [to |-> u, product |-> product] \in sends

\* C15: a subscribe or unsubscribe handler that runs while notify_change is
\* suspended on a send is safe and not lost: the loop visits exactly the ids
\* of the copy taken when it started, and the discard after the loop takes
\* from the set as the handlers left it only the ids whose send failed in this
\* loop (so an id added meanwhile stays a member).
C15_ConcurrentSafe ==
    /\ [](pc \in {"sub_send", "prune", "notified"} =>
            /\ (DOMAIN outcome) \cup remaining = copy
            /\ (DOMAIN outcome) \cap remaining = {})
    /\ [][ (pc = "prune" /\ pc' = "notified") =>
            /\ failed_subscribers = { u \in copy : outcome[u] # "ok" }
            /\ subscribers' = subscribers \ failed_subscribers ]_vars

\* An id subscribed during the loop is a member after the discard that removed
\* a failed id of the copy.
C15_Witness ==
    /\ pc = "notified"
    /\ interfered
    /\ failed_subscribers # {}
    /\ subscribers \ copy # {}
    /\ subscribers \cap failed_subscribers = {}

\* C17: persistence is write-through: whenever the latest save_subscribers
\* call succeeded (or none has been made since the set was loaded), SUBS_FILE
\* holds the sorted list of self.subscribers, so load_subscribers gives back
\* exactly the set in memory.
C17_WriteThrough ==
    ~save_failed =>
        /\ subs_file = SortedList(subscribers)
        /\ load_subscribers(subs_file) = subscribers

\* A handler and a pruning notify_change have both changed the set and the
\* latest save succeeded.
C17_Witness ==
    /\ cmds >= 1
    /\ saves >= 1
    /\ ~save_failed
    /\ subscribers # {}
    /\ load_subscribers(subs_file) = subscribers

\* C18: during the dispatch of one poll (all its notify_change calls)
\* save_subscribers is called at most once, and no send of the poll follows
\* the save.
C18_SaveOnceAfterSends ==
    /\ saves <= 1
    /\ saves = 1 => pc \notin {"group_send", "subs", "sub_send"}

\* C19: a save that fails raises nothing and leaves the set in memory as
\* mutated (notify_change goes on to its return with the failed ids
\* discarded), and the first later save that succeeds makes SUBS_FILE equal
\* to the set in memory.
C19_FailedSaveHarmless ==
    /\ [][ (pc = "prune" /\ failed_subscribers # {} /\ save_failed') =>
              /\ pc' = "notified"
              /\ subscribers' = subscribers \ failed_subscribers ]_vars
    /\ [][ (save_failed /\ ~save_failed') =>
              load_subscribers(subs_file') = subscribers' ]_vars

\* The save of a pruning notify_change failed: the call returns normally, the
\* failed ids are gone from memory and still in the file.
C19_Witness ==
    /\ pc = "notified"
    /\ save_failed
    /\ saves >= 1
    /\ failed_subscribers # {}
    /\ subscribers \cap failed_subscribers = {}
    /\ load_subscribers(subs_file) \cap failed_subscribers # {}

\* C20: last_prices is only ever replaced by a non-empty snapshot: it is empty
\* only until the first successful poll has adopted its snapshot, and when a
\* successful poll has finished it is exactly the snapshot fetched in that
\* poll (the latest entry of price_history).
C20_NeverAdoptEmpty ==
    /\ IsEmpty(last_prices) =>
          \/ price_history = <<>>
          \/ Len(price_history) = 1 /\ pc \in {"compare", "adopt"}
    /\ (pc = "sleep" /\ streak = 0 /\ price_history # <<>>) =>
          /\ last_prices = current
          /\ last_prices = price_history[Len(price_history)]

\* A second successful poll has replaced the baseline by a different snapshot.
C20_Witness ==
    /\ pc = "sleep"
    /\ streak = 0
    /\ Len(price_history) = 2
    /\ price_history[1] # price_history[2]
    /\ last_prices = price_history[2]
    /\ ~IsEmpty(last_prices)

\* C16: a fetch started from a command never feeds the change detector and
\* never writes last_prices: no handler step changes last_prices, and no
\* notify_change call or send is made on behalf of a handler.
C16_OnDemandInert ==
    /\ [](forced => (changes = <<>> /\ sends = {}))
    /\ [][ cmds' # cmds => last_prices' = last_prices ]_vars

\* -------------------------------------------------- liveness of the scheduler
\* The steps by which the monitoring task goes on from any place other than
\* the await of fetch_silver_prices: a send completes (with any result), the
\* synchronous code in between runs, asyncio.sleep returns.
Resume ==
    \/ \E r \in GroupOutcomes : AlertSend(r)
    \/ \E r \in GroupOutcomes : ErrorAlertSend(r)
    \/ Dispatch
    \/ MonitorSleep

\* The start of the program, on a disk that takes every write or on one whose
\* writes can fail.
InitLive ==
    /\ InitCommon
    /\ disk_faulty \in BOOLEAN
    /\ fetched = <<>>
    /\ pc = "fetch"
    /\ current = EmptySnapshot
    /\ todo = {}
    /\ last_prices = EmptySnapshot
    /\ price_history = <<>>

\* The event loop runs a task that is ready, every bot.send_message call
\* returns or raises (the HTTP client has timeouts) and asyncio.sleep returns
\* after its delay: a step of Resume that stays possible is taken.  Nothing is
\* assumed about the answer of the price site.
\* The monitoring task alone: the handlers write none of its locals and take
\* none of its steps away.
NextLive ==
    \/ \E cur \in FetchResults : FetchOk(cur) /\ UNCHANGED html
    \/ FetchEmpty /\ UNCHANGED html
    \/ MonitorError
    \/ Resume

SpecLive == InitLive /\ [][NextLive]_vars /\ WF_vars(Resume)

\* C21: the monitoring task has no terminal place: from every place other
\* than the await of the fetch (a successful poll being dispatched, an empty
\* snapshot, the except branch, failed group or subscriber sends, a failed
\* save) it comes back to the start of another fetch.
C21_AlwaysRefetch == (pc # "fetch") ~> (pc = "fetch")

\* Back at the fetch after a poll in which subscriber sends failed and the
\* save of the pruned set failed as well.
C21_Witness ==
    /\ pc = "fetch"
    /\ polls >= 2
    /\ save_failed
    /\ ~group_notification_enabled
    /\ load_subscribers(subs_file) # subscribers

\* ------------------------------------------------------- history at its cap
\* The history after n successful polls that fetched, in turn, the three
\* snapshots of the table pages.
LongHistory(n) ==
    [i \in 1..n |->
        CASE i % 3 = 1 -> parse_prices([rows |-> <<RowA100>>, lines |-> <<>>])
          [] i % 3 = 2 -> parse_prices([rows |-> <<RowA101>>, lines |-> <<>>])
          [] OTHER     -> parse_prices([rows |-> <<RowA100, RowB100>>, lines |-> <<>>])]

\* The monitoring task at the start of a poll, after no poll or after as many
\* successful polls as fill the history up to one below its cap or up to its
\* cap, while nobody is subscribed.
InitHistory ==
    /\ InitCommon
    /\ subs_file = <<>>
    /\ disk_faulty = FALSE
    /\ pc = "fetch"
    /\ todo = {}
    /\ \E n \in {0, HistoryCap - 1, HistoryCap} :
          /\ price_history = LongHistory(n)
          /\ last_prices = IF n = 0 THEN EmptySnapshot ELSE price_history[n]
    /\ fetched = price_history
    /\ current = last_prices

NextHistory ==
    \/ \E cur \in FetchResults : FetchOk(cur) /\ UNCHANGED html
    \/ FetchEmpty /\ UNCHANGED html
    \/ \E r \in GroupOutcomes : AlertSend(r)
    \/ \E p \in Products : CompareNext(p)
    \/ CompareBaseline
    \/ CompareRemoved
    \/ \E r \in GroupOutcomes : GroupSend(r)
    \/ SubsBegin
    \/ Prune
    \/ NotifyReturn
    \/ Adopt
    \/ MonitorSleep

SpecHistory == InitHistory /\ [][NextHistory]_vars

\* C22: after k successful polls the history has min(k, 200) entries, and
\* they are the min(k, 200) snapshots fetched last, in the order of the polls.
C22_HistoryIsRecent ==
    LET k == Len(fetched)
        n == Min(k, HistoryCap)
    IN /\ Len(price_history) = n
       /\ \A i \in 1..n : price_history[i] = fetched[k - n + i]

\* More polls than the cap have succeeded: the oldest snapshot is gone and the
\* newest is the last entry.
C22_Witness ==
    /\ Len(fetched) > HistoryCap
    /\ Len(price_history) = HistoryCap
    /\ price_history[1] # fetched[1]
    /\ price_history[HistoryCap] = fetched[Len(fetched)]
    /\ pc = "sleep"

\* C23: the health alert goes to the group only: the step in which a failed
\* poll reaches the threshold and the step in which send_to_group hands the
\* alert to bot.send_message make no send to a subscriber and leave
\* self.subscribers and SUBS_FILE as they are; the alert is one message.
C23_AlertToGroupOnly ==
    [][ (alerts' > alerts \/ alert_sends' > alert_sends) =>
            /\ sends' = sends
            /\ attempts' = attempts
            /\ subscribers' = subscribers
            /\ subs_file' = subs_file
            /\ alert_sends' <= alert_sends + 1 ]_vars

\* The alert of the third failed poll has been sent while two users are
\* subscribed.
C23_Witness ==
    /\ pc = "sleep"
    /\ streak = max_consecutive_errors
    /\ alert_sends = 1
    /\ Cardinality(subscribers) >= 2
    /\ sends = {}
    /\ load_subscribers(subs_file) = subscribers

\* C24: a send of a dispatch that fails, to the group or to a subscriber, is
\* not seen by monitor_loop: whatever the result of the send, the step leaves
\* consecutive_errors and the sleep time alone and stays inside notify_change,
\* and the poll ends in its normal sleep with last_prices replaced by the
\* snapshot of the poll.
C24_SendFailureContained ==
    /\ [][ (pc \in {"group_send", "sub_send"} /\ attempts' # attempts) =>
              /\ consecutive_errors' = consecutive_errors
              /\ streak' = streak
              /\ wait_time' = wait_time
              /\ pc' \in {"subs", "sub_send", "prune"} ]_vars
    /\ [](pc = "sleep" /\ streak = 0 /\ sends # {} =>
              /\ last_prices = current
              /\ consecutive_errors = 0
              /\ wait_time = POLL_SECONDS)

\* A poll in which the group send ended with Forbidden and a subscriber send
\* failed has reached its sleep.
C24_Witness ==
    /\ pc = "sleep"
    /\ streak = 0
    /\ polls >= 2
    /\ \E m \in sends : m.to = GROUP_CHAT_ID
    /\ ~group_notification_enabled
    /\ saves >= 1
    /\ last_prices = current
    /\ consecutive_errors = 0

\* ------------------------------------------------------ polls with the page
RowA100same == [product |-> "BAC_A", cols |-> <<UnitText, T100, T100>>]

\* The pages of the polls that keep the page: those of Pages, tables in which
\* a row without any price stands beside a row with one, and a table whose
\* row differs from RowA100 in the second price only.
ParseRowSeqs == RowSeqs \cup { <<RowAzero, RowB100>>, <<RowA100, RowAzero>>,
                               <<RowA100same>> }

ParsePages == [rows : ParseRowSeqs, lines : LineSeqs]

\* monitor_loop, "current = await self.fetch_silver_prices()": the request
\* returns the page h, parse_prices(h) is the snapshot of the poll
FetchPage(h) ==
    /\ pc = "fetch"
    /\ html' = h
    /\ LET prices == parse_prices(h) IN
       IF IsEmpty(prices) THEN FetchEmpty ELSE FetchOk(prices)

\* The start of the program while nobody is subscribed.
InitParse ==
    /\ InitCommon
    /\ subs_file = <<>>
    /\ disk_faulty = FALSE
    /\ fetched = <<>>
    /\ pc = "fetch"
    /\ current = EmptySnapshot
    /\ todo = {}
    /\ last_prices = EmptySnapshot
    /\ price_history = <<>>

NextParse ==
    \/ \E h \in ParsePages : FetchPage(h)
    \/ \E r \in GroupOutcomes : AlertSend(r)
    \/ \E p \in Products : CompareNext(p)
    \/ CompareBaseline
    \/ CompareRemoved
    \/ \E r \in GroupOutcomes : GroupSend(r)
    \/ SubsBegin
    \/ Prune
    \/ NotifyReturn
    \/ Adopt
    \/ MonitorSleep

SpecParse == InitParse /\ [][NextParse]_vars

\* A record as the claim wants it.
GoodRecord(rec) ==
    /\ rec.buy_price > 0
    /\ rec.sell_price = None \/ rec.sell_price > 0

GoodSnapshot(snapshot) == \A p \in DOMAIN snapshot : GoodRecord(snapshot[p])

\* The values above 0 among the cells after the product name, in column order.
PositivePrices(cols) ==
    SelectSeq([i \in DOMAIN cols |-> parse_price_num(cols[i])], LAMBDA v : v > 0)

\* Page h quotes a price above 0 for product p: in a table row of p, or in one
\* of the three text lines after a line of p.
Quoted(h, p) ==
    \/ \E i \in DOMAIN h.rows :
          /\ h.rows[i].product = p
          /\ PositivePrices(h.rows[i].cols) # <<>>
    \/ \E i \in DOMAIN h.lines :
          /\ h.lines[i].label = p
          /\ \E j \in (i + 1)..Min(i + 3, Len(h.lines)) : LineValue(h.lines[j]) > 0

\* C25: every record of the snapshot of a poll, of last_prices and of every
\* history entry has a buy price above 0 and a sell price that is None or
\* above 0; a product for which the page quotes no price above 0 has no
\* record in the snapshot.
C25_RecordsArePriced ==
    /\ GoodSnapshot(current)
    /\ GoodSnapshot(last_prices)
    /\ \A i \in DOMAIN price_history : GoodSnapshot(price_history[i])
    /\ \A p \in DOMAIN current : Quoted(html, p)

\* The table had a row of BAC_A whose price cells are "-" and "0" and a row of
\* BAC_B with a price: the adopted snapshot has a record for BAC_B only.
C25_Witness ==
    /\ pc = "sleep"
    /\ html.rows = <<RowAzero, RowB100>>
    /\ DOMAIN current = {"BAC_B"}
    /\ last_prices = current
    /\ price_history # <<>>

\* C30: for the last table row of a silver product with at least two cells
\* above 0 after the name, the record of the snapshot has the first of them
\* as buy_price and the second as sell_price.
C30_SecondPriceIsSell ==
    \A i \in DOMAIN html.rows :
        LET row == html.rows[i]
            pos == PositivePrices(row.cols)
        IN (/\ HasSilverKeyword(row.product)
            /\ 1 + Len(row.cols) >= 3
            /\ Len(pos) >= 2
            /\ \A j \in DOMAIN html.rows : j > i => html.rows[j].product # row.product) =>
               /\ row.product \in DOMAIN current
               /\ current[row.product].buy_price = pos[1]
               /\ current[row.product].sell_price = pos[2]

\* ------------------------------------------------- the numbers of a message
\* Records with prices of the size the site quotes (VND).
QuotedRecords == [buy_price  : {1000000, 1020000},
                  sell_price : {None, 1000000, 1050000}]

QuotedSnapshots == UNION { [D -> QuotedRecords] : D \in SUBSET Products }

\* One call of compare_and_notify with last_prices and current ranging over
\* the snapshots of such records, while nobody is subscribed.
InitNotify ==
    /\ InitCommon
    /\ subs_file = <<>>
    /\ disk_faulty = FALSE
    /\ pc = "compare"
    /\ last_prices \in QuotedSnapshots \ {EmptySnapshot}
    /\ current \in QuotedSnapshots \ {EmptySnapshot}
    /\ todo = DOMAIN current
    /\ price_history = <<last_prices, current>>
    /\ fetched = price_history

NextNotify ==
    \/ \E p \in Products : CompareNext(p)
    \/ CompareRemoved
    \/ \E r \in GroupOutcomes : GroupSend(r)
    \/ SubsBegin
    \/ Prune
    \/ NotifyReturn
    \/ Adopt

SpecNotify == InitNotify /\ [][NextNotify]_vars

\* C26: the numbers of the message of the latest notify_change call: the buy
\* change is current minus previous; for previous {buy 1000000, sell 1050000}
\* and current {buy 1020000, sell 1050000} they are 20000, +2.00 %, spread
\* 30000 and 2.94 %; the percentage is 0 when the previous buy price is 0; a
\* spread is reported only when the current record has a sell price above 0.
C26_MessageNumbers ==
    changes # <<>> =>
        LET c == changes[Len(changes)] IN
        /\ message.buy_delta = c.current.buy_price - c.previous.buy_price
        /\ (/\ c.previous = [buy_price |-> 1000000, sell_price |-> 1050000]
            /\ c.current = [buy_price |-> 1020000, sell_price |-> 1050000]) =>
               message = [buy_delta |-> 20000, buy_delta_pct |-> 200,
                          spread |-> 30000, spread_pct |-> 294,
                          spread_reported |-> TRUE]
        /\ c.previous.buy_price = 0 => message.buy_delta_pct = 0
        /\ message.spread_reported =>
               (c.current.sell_price # None /\ c.current.sell_price > 0)

\* A new product has been notified (previous buy price 0) and after it the
\* change from {1000000, 1050000} to {1020000, 1050000}.
C26_Witness ==
    /\ Len(changes) = 2
    /\ changes[1].previous.buy_price = 0
    /\ changes[2].previous = [buy_price |-> 1000000, sell_price |-> 1050000]
    /\ changes[2].current = [buy_price |-> 1020000, sell_price |-> 1050000]
    /\ message.buy_delta_pct = 200
    /\ message.spread_pct = 294
    /\ message.spread_reported

\* C27: in one notify_change call no chat gets more than one bot.send_message
\* call, and when the subscriber loop has ended every id of the copy has got
\* exactly one and no other user any, whatever the results of the sends.
C27_OneAttemptEach ==
    /\ \A c \in ChatIds : attempts[c] <= 1
    /\ pc \in {"prune", "notified"} =>
          \A u \in Uids : attempts[u] = IF u \in copy THEN 1 ELSE 0

\* Both subscribers and the group have been tried once; the group send ended
\* with Forbidden and a subscriber send with a transient error.
C27_Witness ==
    /\ pc = "notified"
    /\ Cardinality(copy) >= 2
    /\ \A u \in copy : attempts[u] = 1
    /\ attempts[GROUP_CHAT_ID] = 1
    /\ ~group_notification_enabled
    /\ \E u \in copy : outcome[u] = "transient"

\* C28: a poll that fetched nothing changes only the failure counter and, at
\* the threshold, hands one alert to the group: the step from the fetch with
\* an empty snapshot, and the alert send after it, leave last_prices,
\* price_history, self.subscribers and SUBS_FILE as they are and make no
\* send of a notification.
C28_FailedPollFrame ==
    [][ (\/ pc = "fetch" /\ pc' # "fetch" /\ current' = EmptySnapshot
         \/ pc = "alert_send" /\ pc' # "alert_send") =>
            /\ last_prices' = last_prices
            /\ price_history' = price_history
            /\ subscribers' = subscribers
            /\ subs_file' = subs_file
            /\ sends' = sends
            /\ attempts' = attempts
            /\ alerts' + alert_sends' <= alerts + alert_sends + 1
            /\ consecutive_errors' \in {consecutive_errors + 1, AfterAlert} ]_vars

\* After a stored snapshot three polls have fetched nothing and the alert has
\* been sent: the snapshot, the history and the subscribers are still there.
C28_Witness ==
    /\ pc = "sleep"
    /\ IsEmpty(current)
    /\ streak = max_consecutive_errors
    /\ alert_sends = 1
    /\ ~IsEmpty(last_prices)
    /\ price_history # <<>>
    /\ last_prices = price_history[Len(price_history)]
    /\ subscribers # {}
    /\ sends = {}

====
